---- MODULE Spec2Model ----
(***************************************************************************)
(* Plan de Medios - Comunidad de Madrid (src/app.py).                      *)
(*                                                                         *)
(* A model of the Streamlit script: cargar_datos (the cached loader),      *)
(* exportar_pdf (the report builder) and main (one re-run of the script    *)
(* per interaction).                                                       *)
(*                                                                         *)
(* Representation.                                                         *)
(*  - A CSV text field whose characters matter (Periodo, Importe) is a     *)
(*    sequence of one-character strings; Tipo, Soporte and Origen are      *)
(*    atoms (TLA+ strings), the empty field being "".                      *)
(*  - A float is a fixed-point integer counted in 1/Scale units, so        *)
(*    "1.234,56" is 123456 and the year 2021 is 202100.  The amounts of    *)
(*    the model carry at most two decimals, so sums are exact.             *)
(*  - pandas' NaN in a string column is the atom NaN; the result of        *)
(*    pd.to_numeric is <<>> for NaN and <<v>> for the number v.            *)
(***************************************************************************)
EXTENDS Integers, Sequences, FiniteSets, TLC

\* Fixed-point denominator of the model's floats (two decimals).
Scale == 100

\* float("nan") as pandas stores it in an object column.
NaN == "nan"

Digits == <<"0", "1", "2", "3", "4", "5", "6", "7", "8", "9">>

IsDigit(c) == \E d \in 1..10 : Digits[d] = c

DigitVal(c) == (CHOOSE d \in 1..10 : Digits[d] = c) - 1

Min(a, b) == IF a <= b THEN a ELSE b

Abs(x) == IF x < 0 THEN -x ELSE x

(***************************************************************************)
(* Series.str.replace(old, new, regex=False) on one string: every          *)
(* occurrence of the one-character old becomes new (a character sequence). *)
(***************************************************************************)
RECURSIVE str_replace(_, _, _)
str_replace(s, old, new) ==
    IF s = <<>> THEN <<>>
    ELSE (IF Head(s) = old THEN new ELSE <<Head(s)>>)
         \o str_replace(Tail(s), old, new)

\* The decimal value of a run of digit characters.
RECURSIVE DigitsValue(_)
DigitsValue(s) ==
    IF s = <<>> THEN 0
    ELSE 10 * DigitsValue(SubSeq(s, 1, Len(s) - 1)) + DigitVal(s[Len(s)])

AllDigits(s) == \A i \in 1..Len(s) : IsDigit(s[i])

\* The positions of the decimal point in s.
Points(s) == {i \in 1..Len(s) : s[i] = "."}

(***************************************************************************)
(* pd.to_numeric(..., errors="coerce") on one string: an optional sign,    *)
(* digits with at most one decimal point and at least one digit parse to   *)
(* the number; the text "nan" and everything else give NaN.  The fraction  *)
(* is read to two decimals.                                                *)
(***************************************************************************)
UnsignedNumeric(s) ==
    IF Points(s) = {}
    THEN IF s # <<>> /\ AllDigits(s) THEN <<Scale * DigitsValue(s)>> ELSE <<>>
    ELSE LET p == CHOOSE i \in Points(s) : TRUE
             ip == SubSeq(s, 1, p - 1)
             fp == SubSeq(s, p + 1, Len(s))
             f2 == SubSeq(fp \o <<"0", "0">>, 1, 2)
         IN IF /\ Cardinality(Points(s)) = 1
               /\ AllDigits(ip) /\ AllDigits(fp)
               /\ Len(ip) + Len(fp) > 0
            THEN <<Scale * DigitsValue(ip) + DigitsValue(f2)>>
            ELSE <<>>

to_numeric(s) ==
    IF s # <<>> /\ Head(s) \in {"-", "+"}
    THEN LET u == UnsignedNumeric(Tail(s))
         IN IF u = <<>> THEN <<>>
            ELSE IF Head(s) = "-" THEN <<-u[1]>> ELSE u
    ELSE UnsignedNumeric(s)

\* Series.fillna(0) on one value.
fillna(x) == IF x = <<>> THEN 0 ELSE x[1]

\* Series.astype(str) on one field as read_csv left it: the empty field was
\* read as NaN and prints as "nan".
astype_str(s) == IF s = <<>> THEN <<"n", "a", "n">> ELSE s

\* read_csv on an atom field: the empty field is NaN.
read_field(a) == IF a = "" THEN NaN ELSE a

\* Lines 45-50: the Importe column of one row.
NormalizarImporte(raw) ==
    fillna(to_numeric(str_replace(str_replace(astype_str(raw), ".", <<>>),
                                  ",", <<".">>)))

\* Mutant of between: the right end is excluded.
between_exclusive(x, left, right) ==
    x # <<>> /\ left * Scale <= x[1] /\ x[1] < right * Scale

\* Series.between(left, right), inclusive on both sides; NaN is never between.
between(x, left, right) ==
    x # <<>> /\ left * Scale <= x[1] /\ x[1] <= right * Scale

PeriodoMin == 2021

PeriodoMax == 2024

(***************************************************************************)
(* cargar_datos: every line is converted, then the lines whose Periodo is  *)
(* in [2021, 2024] are kept.  idx is the DataFrame index label (the line   *)
(* number, counted from 1 here), which boolean indexing preserves.         *)
(***************************************************************************)
ConvertirFila(csv, i) ==
    [idx     |-> i,
     Periodo |-> to_numeric(csv[i].Periodo),
     Tipo    |-> read_field(csv[i].Tipo),
     Soporte |-> read_field(csv[i].Soporte),
     Importe |-> NormalizarImporte(csv[i].Importe),
     Origen  |-> read_field(csv[i].Origen)]

EnRango(r) == between(r.Periodo, PeriodoMin, PeriodoMax)

cargar_datos(csv) ==
    LET conv == [i \in 1..Len(csv) |-> ConvertirFila(csv, i)]
        kept == SelectSeq(conv, EnRango)
    IN [i \in 1..Len(kept) |-> [kept[i] EXCEPT !.Periodo = kept[i].Periodo[1]]]

(***************************************************************************)
(* euros(x): int(round(x)) printed with "." as thousands separator and     *)
(* the suffix " EUR-sign".  round() rounds half to even.                   *)
(***************************************************************************)
py_round(x) ==
    LET q == x \div Scale
        r == x % Scale
    IN IF 2 * r > Scale \/ (2 * r = Scale /\ q % 2 = 1) THEN q + 1 ELSE q

RECURSIVE NatToChars(_)
NatToChars(n) ==
    IF n < 10 THEN <<Digits[n + 1]>>
    ELSE NatToChars(n \div 10) \o <<Digits[(n % 10) + 1]>>

\* format(n, ","): a separator before every group of three digits counted
\* from the right; euros then replaces the "," by ".".
RECURSIVE Agrupar(_, _)
Agrupar(ds, sep) ==
    IF Len(ds) <= 3 THEN ds
    ELSE Agrupar(SubSeq(ds, 1, Len(ds) - 3), sep) \o <<sep>>
         \o SubSeq(ds, Len(ds) - 2, Len(ds))

euros(x) ==
    LET n == py_round(x)
    IN (IF n < 0 THEN <<"-">> ELSE <<>>) \o Agrupar(NatToChars(Abs(n)), ".")
       \o <<" ", "EUR">>

\* enlace_zip(periodo): the year that int(periodo) puts in the link.
enlace_zip(periodo) == NatToChars(periodo \div Scale)

(***************************************************************************)
(* Python's order on the atoms of the model (str.__lt__ is code-point      *)
(* order): the position of the atom in Collation.                          *)
(***************************************************************************)
Collation ==
    <<"CanalX", "DiarioY", "M01", "M02", "M03", "M04", "M05", "M06", "M07",
      "M08", "M09", "M10", "M11", "M12", "M13", "M14", "M15", "M16", "M17",
      "M18", "M19", "M20", "O1", "Prensa", "TV">>

StrRank(a) == CHOOSE i \in 1..Len(Collation) : Collation[i] = a

\* sorted(values) of a set of numbers, ascending.
SortedNum(S) ==
    [p \in 1..Cardinality(S) |->
        CHOOSE k \in S : Cardinality({j \in S : j < k}) = p - 1]

\* sorted(values) of a set of strings that can be sorted, ascending: the
\* atoms of Collation that are in S, in Collation's order.
SortedStr(S) ==
    IF S = {NaN} THEN <<NaN>> ELSE SelectSeq(Collation, LAMBDA a : a \in S)

\* sorted() of the unique values of an object column raises TypeError when it
\* has to compare float nan with a str.
Sortable(S) == NaN \notin S \/ S = {NaN}

\* Series.unique(): the values of one column.
unique(t, col) == {t[i][col] : i \in 1..Len(t)}

\* Series == value on a string column; nan equals nothing.
EqStr(a, b) == a # NaN /\ a = b

\* Series.sum() of the Importe column over rows lo..hi.
RECURSIVE SumRange(_, _, _)
SumRange(t, lo, hi) ==
    IF lo > hi THEN 0
    ELSE IF lo = hi THEN t[lo].Importe
    ELSE LET mid == (lo + hi) \div 2
         IN SumRange(t, lo, mid) + SumRange(t, mid + 1, hi)

SumImporte(t) == SumRange(t, 1, Len(t))

(***************************************************************************)
(* df.groupby(col)["Importe"].sum(): one entry per key, keys ascending;    *)
(* rows whose key is NaN are left out (dropna=True is the default).        *)
(***************************************************************************)
GroupKeysStr(t, col) == SortedStr(unique(t, col) \ {NaN})

groupby_sum_str(t, col) ==
    LET keys == GroupKeysStr(t, col)
    IN [p \in 1..Len(keys) |->
          [key |-> keys[p],
           sum |-> SumImporte(SelectSeq(t, LAMBDA r : r[col] = keys[p]))]]

groupby_sum_periodo(t) ==
    LET keys == SortedNum(unique(t, "Periodo"))
    IN [p \in 1..Len(keys) |->
          [key |-> keys[p],
           sum |-> SumImporte(SelectSeq(t, LAMBDA r : r.Periodo = keys[p]))]]

(***************************************************************************)
(* Series.sort_values(ascending=False).  The default kind is quicksort,    *)
(* which is not stable: the order of equal sums is the stable one or not,  *)
(* as the build decides (estable).                                         *)
(***************************************************************************)
\* e goes before the entries of s that it must precede: those with a smaller
\* sum and, when the sort is not stable, those with an equal sum.
RECURSIVE Insertar(_, _, _)
Insertar(s, e, estable) ==
    IF s = <<>> THEN <<e>>
    ELSE IF Head(s).sum > e.sum \/ (Head(s).sum = e.sum /\ estable)
    THEN <<Head(s)>> \o Insertar(Tail(s), e, estable)
    ELSE <<e>> \o s

RECURSIVE SortPrefix(_, _, _)
SortPrefix(agg, n, estable) ==
    IF n = 0 THEN <<>>
    ELSE Insertar(SortPrefix(agg, n - 1, estable), agg[n], estable)

\* Mutant of sort_values_desc: the sort is left out.
sort_values_omitted(agg, estable) == agg

sort_values_desc(agg, estable) == SortPrefix(agg, Len(agg), estable)

\* Series.head(n).
head(s, n) == SubSeq(s, 1, Min(n, Len(s)))

\* The ranking of line 212 keeps this many outlets.
TopN == 15

\* Index.get_loc(key): the 0-based position of key, <<>> when absent (KeyError).
get_loc(s, key) ==
    LET hits == {i \in 1..Len(s) : EqStr(s[i].key, key)}
    IN IF hits = {} THEN <<>> ELSE <<(CHOOSE i \in hits : TRUE) - 1>>

(***************************************************************************)
(* numpy float division total_medio / total_global * 100 as the ".2f"      *)
(* format prints it: x/0 is nan or +-inf (a warning, no exception).        *)
(***************************************************************************)
FloatNum(v) == [nan |-> FALSE, inf |-> 0, v |-> v]

\* a / b * 100 rounded to two decimals (half to even), by long division so
\* that no intermediate product leaves the integers TLC computes with.
RECURSIVE LongDiv(_, _, _, _)
LongDiv(q, r, d, places) ==
    IF places = 0 THEN [q |-> q, r |-> r]
    ELSE LongDiv(10 * q + (10 * r) \div d, (10 * r) % d, d, places - 1)

RoundDiv(a, b) ==
    LET n == IF b < 0 THEN -a ELSE a
        d == Abs(b)
        x == LongDiv(n \div d, n % d, d, 4)
    IN IF 2 * x.r > d \/ (2 * x.r = d /\ x.q % 2 = 1) THEN x.q + 1 ELSE x.q

porcentaje(total_medio, total_global) ==
    IF total_global = 0
    THEN IF total_medio = 0 THEN [nan |-> TRUE, inf |-> 0, v |-> 0]
         ELSE [nan |-> FALSE, inf |-> IF total_medio > 0 THEN 1 ELSE -1, v |-> 0]
    ELSE FloatNum(RoundDiv(total_medio, total_global))


(***************************************************************************)
(* DataFrame objects.  obj is the identity of the object: .copy() and      *)
(* boolean indexing make a new object, a plain assignment does not, and a  *)
(* column assignment writes to every name bound to the same object.        *)
(* dtype is the dtype of the Importe column.                               *)
(***************************************************************************)
Frame(obj, dtype, rows) == [obj |-> obj, dtype |-> dtype, rows |-> rows]

\* Mutant of copy: the .copy() is forgotten and the name is bound to f itself.
copy_alias(f, name) == f

\* DataFrame.copy(): a new object (name) with the same rows.
copy(f, name) == [f EXCEPT !.obj = name]

\* f[mask]: a new object holding the rows of f that the mask selects.
getitem(f, name, selected) == Frame(name, f.dtype, selected)

\* Mutant of empty: the empty-state test never fires.
empty_never(f) == FALSE

\* DataFrame.empty
empty(f) == Len(f.rows) = 0

\* Series.apply(euros) on the Importe column.
apply_euros(rows) ==
    [i \in 1..Len(rows) |-> [rows[i] EXCEPT !.Importe = euros(@)]]

\* target["Importe"] = target["Importe"].apply(euros), seen from the name df:
\* df changes when target is the same object.
setitem_importe(df, target) ==
    IF target.obj = df.obj
    THEN Frame(df.obj, "object", apply_euros(target.rows))
    ELSE df

\* Series.iloc[i] (0-based): <<>> when i is out of bounds (IndexError).
iloc(rows, i) == IF i < Len(rows) THEN <<rows[i + 1]>> ELSE <<>>

\* Series.nunique(): NaN is not counted.
nunique(t, col) == Cardinality(unique(t, col) \ {NaN})

(***************************************************************************)
(* Widget values.  A selectbox value is "Todos" (todos) or one of the      *)
(* column's values (val).                                                  *)
(***************************************************************************)
TodosNum == [todos |-> TRUE, val |-> 0]

TodosStr == [todos |-> TRUE, val |-> ""]

Sel(v) == [todos |-> FALSE, val |-> v]

Vistas == {"Resumen", "Evolucion", "Datos"}

OpcionesNum(t, col) == {TodosNum} \cup {Sel(v) : v \in unique(t, col)}

OpcionesStr(t, col) == {TodosStr} \cup {Sel(v) : v \in unique(t, col)}

\* Lines 109-115: the conjunctive filter on a copy of df.
Filtrar(df, periodo, tipo, soporte) ==
    LET f0 == copy(df, "df_f")
        f1 == IF ~periodo.todos
              THEN getitem(f0, "df_f1",
                           SelectSeq(f0.rows, LAMBDA r : r.Periodo = periodo.val))
              ELSE f0
        f2 == IF ~tipo.todos
              THEN getitem(f1, "df_f2",
                           SelectSeq(f1.rows, LAMBDA r : EqStr(r.Tipo, tipo.val)))
              ELSE f1
    IN IF ~soporte.todos
       THEN getitem(f2, "df_f3",
                           SelectSeq(f2.rows, LAMBDA r : EqStr(r.Soporte, soporte.val)))
       ELSE f2

(***************************************************************************)
(* exportar_pdf(titulo, filtros, metricas, figuras) with n figures.        *)
(* fallo is the step that raises: 0 none, k in 1..n the write_image of     *)
(* figure k, n+1 doc.build.  Every figure reached gets a temporary file    *)
(* (NamedTemporaryFile(delete=False)) before write_image runs; nothing     *)
(* removes a file.                                                         *)
(***************************************************************************)
exportar_pdf(n, fallo) ==
    LET alcanzadas == IF fallo = 0 \/ fallo > n THEN n ELSE fallo
    IN [creados      |-> alcanzadas,
        borrados     |-> 0,
        rasterizadas |-> alcanzadas,
        ok           |-> fallo = 0,
        error        |-> IF fallo = 0 THEN ""
                         ELSE IF fallo <= n THEN "write_image" ELSE "doc.build"]

\* The number of figures each view appends to figuras_pdf.
NFiguras(vista) ==
    IF vista = "Resumen" THEN 2 ELSE IF vista = "Evolucion" THEN 1 ELSE 0

\* f"{x:.2f}%" of a float already rounded to two decimals.
format_pct(x) ==
    IF x.nan THEN <<"n", "a", "n", "%">>
    ELSE IF x.inf # 0
    THEN (IF x.inf < 0 THEN <<"-">> ELSE <<>>) \o <<"i", "n", "f", "%">>
    ELSE LET a == Abs(x.v)
         IN (IF x.v < 0 THEN <<"-">> ELSE <<>>) \o NatToChars(a \div Scale)
            \o <<".", Digits[((a % Scale) \div 10) + 1], Digits[(a % 10) + 1], "%">>

FloatZero == [nan |-> FALSE, inf |-> 0, v |-> 0]

(***************************************************************************)
(* What one run of main leaves on the page.                                *)
(***************************************************************************)
Blank ==
    [status |-> "none", error |-> "", aviso |-> FALSE,
     periodo |-> TodosNum, tipo |-> TodosStr, soporte |-> TodosStr,
     vista |-> "Resumen", modo_periodista |-> FALSE, soporte_prensa |-> "",
     df_f |-> <<>>, df_m |-> <<>>, df_show |-> <<>>,
     metricas |-> <<>>, groupbys |-> 0, figuras |-> 0,
     rasterizadas |-> 0, pdf_llamado |-> FALSE, descarga |-> FALSE,
     inv_tipo |-> <<>>, ranking |-> <<>>, evol |-> <<>>,
     total_medio |-> 0, total_global |-> 0, pct |-> FloatZero,
     tipo_medio |-> "", posicion |-> 0, enlaces |-> <<>>]

Salida(run, df, exp) == [run |-> run, df |-> df, exp |-> exp]

SinExportar == exportar_pdf(0, 0)

\* Lines 119-121: the empty-state message and st.stop().
Vacio(base, df) ==
    Salida([base EXCEPT !.status = "empty", !.aviso = TRUE], df, SinExportar)

\* Lines 126-181: journalist mode.
Periodista(base, df, sp, estable) ==
    LET m0 == getitem(df, "df_m",
                           SelectSeq(df.rows, LAMBDA r : EqStr(r.Soporte, sp)))
        df_m == IF ~base.periodo.todos
                THEN getitem(m0, "df_m1",
                           SelectSeq(m0.rows, LAMBDA r : r.Periodo = base.periodo.val))
                ELSE m0
        total_medio == SumImporte(df_m.rows)
        total_global == SumImporte(df.rows)
        ranking == sort_values_desc(groupby_sum_str(df.rows, "Soporte"), estable)
        loc == get_loc(ranking, sp)
        b1 == [base EXCEPT !.soporte_prensa = sp, !.df_m = df_m.rows,
                           !.total_medio = total_medio,
                           !.total_global = total_global]
        primera == iloc(df_m.rows, 0)
        df_show == copy(df_m, "df_show")
    IN IF primera = <<>>
       THEN \* df_m["Tipo"].iloc[0] raises IndexError
            Salida([b1 EXCEPT !.status = "error", !.error = "IndexError"],
                   df, SinExportar)
       ELSE IF loc = <<>>
       THEN Salida([b1 EXCEPT !.status = "error", !.error = "KeyError",
                              !.groupbys = 1, !.ranking = ranking],
                   df, SinExportar)
       ELSE Salida([b1 EXCEPT
                      !.status = "periodista",
                      !.tipo_medio = primera[1].Tipo,
                      !.ranking = ranking,
                      !.posicion = loc[1] + 1,
                      !.pct = porcentaje(total_medio, total_global),
                      !.metricas = <<[k |-> "Inversion total", v |-> euros(total_medio)],
                                     [k |-> "% del total",
                                      v |-> format_pct(porcentaje(total_medio, total_global))],
                                     [k |-> "Tipo de medio", v |-> <<primera[1].Tipo>>],
                                     [k |-> "Ranking", v |-> NatToChars(loc[1] + 1)]>>,
                      !.evol = groupby_sum_periodo(df_m.rows),
                      !.groupbys = 2,
                      !.figuras = 1,
                      !.df_show = apply_euros(df_show.rows)],
                   setitem_importe(df, df_show), SinExportar)

\* Lines 184-268: the metrics, the selected view and the export.
Vista(base, df, df_f, estable, fallo) ==
    LET vista == base.vista
        metricas ==
            <<[k |-> "Registros", v |-> Agrupar(NatToChars(Len(df_f.rows)), ",")],
              [k |-> "Inversion total", v |-> euros(SumImporte(df_f.rows))],
              [k |-> "Soportes unicos", v |-> NatToChars(nunique(df_f.rows, "Soporte"))]>>
        df_show == copy(df_f, "df_show")
        exp == exportar_pdf(NFiguras(vista), fallo)
        b1 == [base EXCEPT
                 !.metricas = metricas,
                 !.inv_tipo = IF vista = "Resumen"
                              THEN groupby_sum_str(df_f.rows, "Tipo") ELSE <<>>,
                 !.ranking = IF vista = "Resumen"
                             THEN head(sort_values_desc(
                                         groupby_sum_str(df_f.rows, "Soporte"),
                                         estable), TopN)
                             ELSE <<>>,
                 !.evol = IF vista = "Evolucion"
                          THEN groupby_sum_periodo(df_f.rows) ELSE <<>>,
                 !.df_show = IF vista = "Datos"
                             THEN apply_euros(df_show.rows) ELSE <<>>,
                 !.groupbys = NFiguras(vista),
                 !.figuras = NFiguras(vista),
                 !.pdf_llamado = TRUE,
                 !.rasterizadas = exp.rasterizadas]
        df1 == IF vista = "Datos" THEN setitem_importe(df, df_show) ELSE df
        periodos == SortedNum(unique(df_f.rows, "Periodo"))
    IN IF exp.ok
       THEN Salida([b1 EXCEPT
                      !.status = "vista", !.descarga = TRUE,
                      !.enlaces = [i \in 1..Len(periodos) |-> enlace_zip(periodos[i])]],
                   df1, exp)
       ELSE Salida([b1 EXCEPT !.status = "error", !.error = exp.error], df1, exp)

(***************************************************************************)
(* The input files of the model.                                           *)
(***************************************************************************)
Linea(p, t, s, i, o) ==
    [Periodo |-> p, Tipo |-> t, Soporte |-> s, Importe |-> i, Origen |-> o]

Muestras ==
    {Linea(<<"2", "0", "2", "1">>, "TV", "CanalX",
           <<"1", ".", "0", "0", "0", ",", "0", "0">>, "O1"),
     Linea(<<"2", "0", "2", "2">>, "Prensa", "DiarioY",
           <<"1", ".", "2", "3", "4", ",", "5", "6">>, "O1"),
     Linea(<<"2", "0", "2", "1">>, "TV", "CanalX", <<"a", "b", "c">>, "O1"),
     Linea(<<"2", "0", "2", "5">>, "TV", "CanalX",
           <<"2", ".", "0", "0", "0", ",", "0", "0">>, "O1"),
     Linea(<<"x">>, "Prensa", "DiarioY", <<>>, ""),
     Linea(<<"2", "0", "2", "4">>, "", "DiarioY", <<"-", "5", ",", "0", "0">>, "O1"),
     Linea(<<"2", "0", "2", "1">>, "TV", "", <<"7", ",", "5", "0">>, "O1")}

\* The longest file built from the sample lines.
MaxLineas == 2

RECURSIVE Secuencias(_, _)
Secuencias(S, n) ==
    IF n = 0 THEN {<<>>}
    ELSE LET prev == Secuencias(S, n - 1)
         IN prev \cup {Append(q, x) : q \in {r \in prev : Len(r) = n - 1}, x \in S}

\* The outlets of the generated files.
Medio(i) == Collation[2 + i]

\* The most outlets a generated file has, and the number of amount patterns.
MaxMedios == 17

MaxPatron == 1

\* The report-size threshold of the specification (no line of src/app.py).
PdfRowLimit == 3000

Monto(i, p) == ((i * (p + 2)) % 7) * 10 + p * (i % 5)

\* n lines over k outlets, all of 2021 and TV, amounts after pattern p.
Generado(n, k, p) ==
    [i \in 1..n |->
        Linea(<<"2", "0", "2", "1">>, "TV", Medio(((i - 1) % k) + 1),
              NatToChars(Monto(i, p)) \o <<",", "0", "0">>, "O1")]

Archivos ==
    Secuencias(Muestras, MaxLineas)
    \cup {Generado(k, k, p) : k \in (TopN + 1)..MaxMedios, p \in 0..MaxPatron}
    \cup {Generado(PdfRowLimit + 1, 1, 1)}

(***************************************************************************)
(* The state.                                                              *)
(*   csv      the lines of Plan_consolidado.csv                            *)
(*   cargado  st.cache_data holds the result of cargar_datos               *)
(*   cache    that result                                                  *)
(*   df       the frame bound to df at the end of the last run             *)
(*   run      what the current run of main has produced                    *)
(*   tmpfiles the temporary image files that exist on disk                 *)
(***************************************************************************)
VARIABLES csv, cargado, cache, df, run, tmpfiles

vars == <<csv, cargado, cache, df, run, tmpfiles>>

\* Runs are explored while fewer than this many temporary files exist.
MaxTmp == 1

Init ==
    /\ csv \in Archivos
    /\ cargado = FALSE
    /\ cache = <<>>
    /\ df = Frame("df", "float64", <<>>)
    /\ run = Blank
    /\ tmpfiles = 0

\* Line 91 on a cache miss: the first run of the script loads the file.
CargarDatos ==
    /\ ~cargado
    /\ cargado' = TRUE
    /\ cache' = cargar_datos(csv)
    /\ df' = Frame("df", "float64", cargar_datos(csv))
    /\ UNCHANGED <<csv, run, tmpfiles>>

Termina(sal) ==
    /\ run' = sal.run
    /\ df' = sal.df
    /\ tmpfiles' = tmpfiles + sal.exp.creados - sal.exp.borrados

\* One run of main (lines 86-268) on the cached table, for one setting of
\* the widgets.
Main ==
    /\ cargado
    /\ run.status = "none"
    /\ tmpfiles < MaxTmp
    /\ UNCHANGED <<csv, cargado, cache>>
    /\ LET df0 == Frame("df", "float64", cache)
       IN IF ~(Sortable(unique(cache, "Tipo")) /\ Sortable(unique(cache, "Soporte")))
          THEN \* lines 97-98: sorted() compares nan with a str
               Termina(Salida([Blank EXCEPT !.status = "error", !.error = "TypeError"],
                              df0, SinExportar))
          ELSE \E periodo \in OpcionesNum(cache, "Periodo"),
                  tipo \in OpcionesStr(cache, "Tipo"),
                  soporte \in OpcionesStr(cache, "Soporte"),
                  vista \in Vistas, modo \in BOOLEAN :
                 LET df_f == Filtrar(df0, periodo, tipo, soporte)
                     base == [Blank EXCEPT !.periodo = periodo, !.tipo = tipo,
                                           !.soporte = soporte, !.vista = vista,
                                           !.modo_periodista = modo,
                                           !.df_f = df_f.rows]
                 IN IF empty(df_f) THEN Termina(Vacio(base, df0))
                    ELSE IF modo
                    THEN \E sp \in unique(cache, "Soporte"), estable \in BOOLEAN :
                            Termina(Periodista(base, df0, sp, estable))
                    ELSE \E estable \in BOOLEAN, fallo \in 0..(NFiguras(vista) + 1) :
                            Termina(Vista(base, df0, df_f, estable, fallo))

\* The next interaction re-runs the script from the top: the page is cleared.
Rerun ==
    /\ run.status # "none"
    /\ run' = Blank
    /\ UNCHANGED <<csv, cargado, cache, df, tmpfiles>>

Next == CargarDatos \/ Main \/ Rerun

Spec == Init /\ [][Next]_vars

(***************************************************************************)
(* Helpers of the properties.                                              *)
(***************************************************************************)
RECURSIVE SumAgg(_)
SumAgg(agg) == IF agg = <<>> THEN 0 ELSE Head(agg).sum + SumAgg(Tail(agg))

\* The filter was applied in the run on the page (lines 109-115 were reached).
Filtrado == run.status # "none" /\ run.error # "TypeError"

\* The run on the page went through the Resumen view (lines 197-222).
EnResumen == run.pdf_llamado /\ run.vista = "Resumen"

\* The Importe of the rows of t whose Soporte is s.
SumaSoporte(t, s) == SumImporte(SelectSeq(t, LAMBDA r : r.Soporte = s))

AniosValidos ==
    {<<"2", "0", "2", "1">>, <<"2", "0", "2", "2">>,
     <<"2", "0", "2", "3">>, <<"2", "0", "2", "4">>}

(***************************************************************************)
(* C1.  Every temporary image file created while exportar_pdf rasterizes   *)
(* a figure is deleted by the time the call ends, however it ends: no      *)
(* temporary file is left on disk after a run.                             *)
(* Fails: NamedTemporaryFile(delete=False) and nothing removes the file.   *)
(***************************************************************************)
C1_TempFilesDeleted == tmpfiles = 0

(***************************************************************************)
(* C2.  In journalist mode with a specific Periodo and an outlet that has  *)
(* no rows in that Periodo, the lookups of the outlet's type and ranking   *)
(* position do not fail: the run does not end in an unhandled error.       *)
(* Fails: df_m["Tipo"].iloc[0] raises IndexError on the empty df_m.        *)
(***************************************************************************)
C2_LookupsDoNotFail ==
    (/\ run.modo_periodista
     /\ ~run.periodo.todos
     /\ run.soporte_prensa \notin {"", NaN}
     /\ run.df_m = <<>>)
    => run.status # "error"

(***************************************************************************)
(* C3.  Whenever the conjunctive filter selects zero rows, the run shows   *)
(* the empty-state message and halts: no group-by is computed, no metric   *)
(* is rendered, no figure is built or rasterized and exportar_pdf is not   *)
(* called, whatever the Vista and the journalist mode.                     *)
(***************************************************************************)
C3_EmptySelectionHalts ==
    (Filtrado /\ run.df_f = <<>>)
    => /\ run.status = "empty"
       /\ run.aviso
       /\ run.groupbys = 0
       /\ run.metricas = <<>>
       /\ run.figuras = 0
       /\ run.rasterizadas = 0
       /\ ~run.pdf_llamado
       /\ ~run.descarga

\* An empty selection in journalist mode with a view other than the default.
C3_Witness ==
    /\ run.status = "empty"
    /\ run.modo_periodista
    /\ run.vista = "Evolucion"
    /\ ~run.periodo.todos
    /\ Len(cache) > 0

(***************************************************************************)
(* C4.  When the filtered selection has more than 3000 records the export  *)
(* is refused: exportar_pdf is not called and no figure is rasterized.     *)
(* Fails: main has no such guard.                                          *)
(***************************************************************************)
C4_LargeExportRefused ==
    (Filtrado /\ Len(run.df_f) > PdfRowLimit)
    => (~run.pdf_llamado /\ run.rasterizadas = 0)

(***************************************************************************)
(* C5.  After any run the table bound to df is the table cargar_datos      *)
(* returned: the same rows, every field of every row unchanged, Importe    *)
(* still numeric.                                                          *)
(***************************************************************************)
C5_BaseTableUnchanged ==
    cargado => (df.dtype = "float64" /\ df.rows = cache)

\* The Datos view has formatted Importe of an unfiltered, non-empty selection,
\* and so has journalist mode.
C5_Witness ==
    /\ run.df_show # <<>>
    /\ Len(run.df_show) = Len(cache)
    /\ run.df_show[1].Importe = euros(cache[1].Importe)
    /\ run.vista = "Datos"
    /\ run.periodo.todos /\ run.tipo.todos /\ run.soporte.todos

(***************************************************************************)
(* C6.  Every record of the loaded table has Periodo in [2021, 2024], and  *)
(* every line of the file whose Periodo is one of these years is in the    *)
(* table (a line with Periodo 2025 or a non-numeric Periodo is not).       *)
(***************************************************************************)
C6_PeriodoInRange ==
    cargado =>
      /\ \A j \in 1..Len(cache) :
            /\ PeriodoMin * Scale <= cache[j].Periodo
            /\ cache[j].Periodo <= PeriodoMax * Scale
      /\ {i \in 1..Len(csv) : csv[i].Periodo \in AniosValidos}
            = {cache[j].idx : j \in 1..Len(cache)}

\* A file with a line of 2024 and a line of 2025 has been loaded.
C6_Witness ==
    /\ cargado
    /\ \E i \in 1..Len(csv) : csv[i].Periodo = <<"2", "0", "2", "5">>
    /\ \E i \in 1..Len(csv) : csv[i].Periodo = <<"2", "0", "2", "4">>
    /\ Len(cache) = 1

(***************************************************************************)
(* C7.  The normalized Importe of every loaded record is a finite number   *)
(* that is greater than or equal to zero.                                  *)
(* Fails: a raw Importe with a minus sign parses to a negative number.     *)
(***************************************************************************)
C7_ImporteNonNegative ==
    cargado => \A j \in 1..Len(cache) : cache[j].Importe >= 0

(***************************************************************************)
(* C8.  The per-group sums of the group-by add up to the sum of Importe    *)
(* over all rows of the filtered table, rows with a missing group field    *)
(* included (here: the group-by on Tipo of the Resumen view).              *)
(* Fails: groupby leaves out the rows whose key is NaN.                    *)
(***************************************************************************)
C8_GroupSumsAddUp ==
    EnResumen => SumAgg(run.inv_tipo) = SumImporte(run.df_f)

(***************************************************************************)
(* C9.  The outlet ranking of the Resumen view has min(15, number of       *)
(* distinct Soporte values of the filtered table) entries, each the sum of *)
(* its outlet, non-increasing from first to last, and no outlet left out   *)
(* has a sum greater than an outlet in the ranking.                        *)
(***************************************************************************)
C9_RankingTopN ==
    EnResumen =>
      LET r == run.ranking
          t == run.df_f
          dentro == {r[i].key : i \in 1..Len(r)}
          fuera == (unique(t, "Soporte") \ {NaN}) \ dentro
      IN /\ Len(r) = Min(TopN, nunique(t, "Soporte"))
         /\ Cardinality(dentro) = Len(r)
         /\ \A i \in 1..Len(r) : r[i].sum = SumaSoporte(t, r[i].key)
         /\ \A i \in 1..(Len(r) - 1) : r[i].sum >= r[i + 1].sum
         /\ \A s \in fuera : \A i \in 1..Len(r) : SumaSoporte(t, s) <= r[i].sum

\* A ranking cut to 15 of more than 15 outlets, whose sums are not all equal.
C9_Witness ==
    /\ EnResumen
    /\ nunique(run.df_f, "Soporte") > TopN
    /\ Len(run.ranking) = TopN
    /\ run.ranking[1].sum > run.ranking[TopN].sum

(***************************************************************************)
(* C10.  The percentage of total shown in journalist mode is 0.0 whenever  *)
(* the total Importe of the base table is 0.                               *)
(* Fails: the float division gives nan (or +-inf), shown as "nan%".        *)
(***************************************************************************)
C10_PercentageOfZeroTotal ==
    (run.status = "periodista" /\ run.total_global = 0) => run.pct = FloatZero
====
